---- MODULE Spec2Model ----
(***************************************************************************)
(* Route construction over geographic point locations                      *)
(* (projects/toilets/src/path_finder.py): the distance index of            *)
(* calculate_distances, the greedy and the clustered router, the           *)
(* starting-point optimizer and the route validator check_route.           *)
(*                                                                         *)
(* Coordinates.  The locations of the model lie on the meridian of         *)
(* longitude -74.05, at latitudes 40.49 + 0.06 * p degrees for the grid    *)
(* positions p of Coords.  A Coordinate is identified with its grid        *)
(* position.  On one meridian the haversine formula of distance_to reduces *)
(* to R * |dlat|, so the distance of two coordinates is |p - q| in units   *)
(* of 0.06 degrees of latitude (about 21,889 feet): distances are exact    *)
(* integers, symmetric, zero only between equal coordinates, and two       *)
(* different coordinates can be at the same distance from a third.         *)
(***************************************************************************)
EXTENDS Integers, Sequences, FiniteSets, TLC

\* ------------------------------------------------------------------ bounds

\* Longest location list of a harness run.
MaxLocs == 4
\* Largest num_clusters parameter handed to the clustered router.
MaxClusters == 2
\* Longest location list and largest max_clusters handed to optimize_parameters.
TuningMaxLocs == 3
MaxMaxClusters == 3
\* Longest item list, largest checkpoint_every and most runs of a
\* CheckpointIterator on one output file.
IterMaxItems == 2
MaxEvery == 3
MaxRuns == 2
\* Longest location list the clustered router is invoked on.
ClusteredMaxLocs == 3
\* Longest location list of the runs checked for termination.
TerminationMaxLocs == 3
\* Longest location list handed to the optimizer.
OptMaxLocs == 3
\* Longest location list of a session of repeated router invocations.
SessionMaxLocs == 3
\* Longest location list and longest route handed to check_route directly.
ValidatorMaxLocs == 2
MaxSteps == 2

\* The races file lists at most MaxRaces races.
MaxRaces == 2

\* The API holds at most MaxRecords timed racers per race-year.
MaxRecords == 2

\* batch_scrape_races is run at most MaxBatchRuns times on one output.
MaxBatchRuns == 2

\* Largest max_retries handed to _scrape_single_year, and most pages the
\* server reports for a race-year.
MaxMaxRetries == 3
MaxPages == 3

\* ------------------------------------------------------------- coordinates

\* Grid positions of the coordinates the location file can hold.
Coords == {0, 2, 3, 5, 6}

\* Coordinate.latitude and Coordinate.longitude, in hundredths of a degree.
Latitude(c) == 4049 + 6 * c
Longitude(c) == 0 - 7405

Abs(x) == IF x < 0 THEN 0 - x ELSE x

\* Coordinate.distance_to: the great-circle distance, in grid units.
distance_to(a, b) == Abs(Latitude(a) - Latitude(b)) \div 6

\* PathFinderAlgo._get_borough, on hundredths of a degree.
get_borough(c) ==
    LET lat == Latitude(c)
        lon == Longitude(c)
    IN  IF 4049 <= lat /\ lat <= 4065 /\ 0 - 7426 <= lon /\ lon <= 0 - 7405
        THEN "Staten Island"
        ELSE IF 4070 <= lat /\ lat <= 4088 /\ 0 - 7402 <= lon /\ lon <= 0 - 7391
        THEN "Manhattan"
        ELSE IF 4079 <= lat /\ lat <= 4092 /\ 0 - 7393 <= lon /\ lon <= 0 - 7375
        THEN "Bronx"
        ELSE IF 4057 <= lat /\ lat <= 4074 /\ 0 - 7404 <= lon /\ lon <= 0 - 7383
        THEN "Brooklyn"
        ELSE IF 4054 <= lat /\ lat <= 4080 /\ 0 - 7396 <= lon /\ lon <= 0 - 7370
        THEN "Queens"
        ELSE IF lat < 4065
        THEN (IF lon < 0 - 7405 THEN "Staten Island" ELSE "Brooklyn")
        ELSE IF lat > 4082
        THEN "Bronx"
        ELSE (IF lon > 0 - 7400 THEN "Manhattan" ELSE "Brooklyn")

\* ------------------------------------------------------------------ helpers

Range(s) == {s[i] : i \in 1..Len(s)}

\* Every list over S of length at most n.
SeqsUpTo(S, n) == UNION {[1..k -> S] : k \in 0..n}

Min2(a, b) == IF a < b THEN a ELSE b

\* list.index: the first position of x in s (1-based), 0 when absent.
IndexOf(s, x) ==
    IF x \in Range(s) THEN CHOOSE i \in 1..Len(s) : s[i] = x /\ \A j \in 1..(i - 1) : s[j] # x
    ELSE 0

\* ------------------------------------------------------------ heapq.heapify

\* The comparison heapq makes of two (distance, Coordinate) tuples, x < y:
\* by distance; at equal distance the Coordinates are compared, which are
\* equal (the tuples are, and x < y is False) or unordered: Coordinate is a
\* frozen dataclass without order=True, and the comparison raises TypeError.
TupleLT(x, y) ==
    IF x[1] # y[1] THEN (IF x[1] < y[1] THEN "True" ELSE "False")
    ELSE IF x[2] = y[2] THEN "False"
    ELSE "TypeError"

\* heapq._siftdown: newitem, at the leaf pos (0-based), moves up past every
\* parent it is smaller than, no further than startpos.
RECURSIVE SiftDown(_, _, _, _)
SiftDown(heap, startpos, pos, newitem) ==
    IF pos > startpos
    THEN LET parentpos == (pos - 1) \div 2
             parent == heap[parentpos + 1]
             lt == TupleLT(newitem, parent)
         IN  IF lt = "TypeError" THEN [heap |-> heap, err |-> TRUE]
             ELSE IF lt = "True"
             THEN SiftDown([heap EXCEPT ![pos + 1] = parent], startpos, parentpos, newitem)
             ELSE [heap |-> [heap EXCEPT ![pos + 1] = newitem], err |-> FALSE]
    ELSE [heap |-> [heap EXCEPT ![pos + 1] = newitem], err |-> FALSE]

\* heapq._siftup: the smaller child bubbles up from pos to a leaf, then
\* newitem is put at the leaf and sifted down to its place.
RECURSIVE SiftUp(_, _, _, _)
SiftUp(heap, startpos, pos, newitem) ==
    LET endpos == Len(heap)
        childpos == 2 * pos + 1
        rightpos == childpos + 1
    IN  IF childpos < endpos
        THEN LET lt == IF rightpos < endpos
                       THEN TupleLT(heap[childpos + 1], heap[rightpos + 1])
                       ELSE "True"
                 smaller == IF lt = "True" THEN childpos ELSE rightpos
             IN  IF lt = "TypeError" THEN [heap |-> heap, err |-> TRUE]
                 ELSE SiftUp([heap EXCEPT ![pos + 1] = heap[smaller + 1]],
                             startpos, smaller, newitem)
        ELSE SiftDown(heap, startpos, pos, newitem)

\* heapq.heapify: _siftup at every parent position, last parent first.
RECURSIVE HeapifyFrom(_, _)
HeapifyFrom(h, i) ==
    IF h.err \/ i < 0 THEN h
    ELSE HeapifyFrom(SiftUp(h.heap, i, i, h.heap[i + 1]), i - 1)

heapify(x) == HeapifyFrom([heap |-> x, err |-> FALSE], (Len(x) \div 2) - 1)

\* -------------------------------------------------------- distance index

\* DistancesFrom without the coord_a != coord_b test.
RECURSIVE DistancesFrom_WithSelf(_, _, _)
DistancesFrom_WithSelf(locs, coord_a, i) ==
    IF i > Len(locs) THEN <<>>
    ELSE <<(<<distance_to(coord_a, locs[i]), locs[i]>>)>>
         \o DistancesFrom_WithSelf(locs, coord_a, i + 1)

\* The inner loop of calculate_distances: (distance, coord_b) for every
\* list entry coord_b that differs from coord_a, in list order.
RECURSIVE DistancesFrom(_, _, _)
DistancesFrom(locs, coord_a, i) ==
    IF i > Len(locs) THEN <<>>
    ELSE (IF coord_a # locs[i]
          THEN <<(<<distance_to(coord_a, locs[i]), locs[i]>>)>>
          ELSE <<>>) \o DistancesFrom(locs, coord_a, i + 1)

\* The list calculate_distances stores for coord_a.
NeighborList(locs, coord_a) == heapify(DistancesFrom(locs, coord_a, 1))

\* PathFinderAlgo.calculate_distances: the map, or the TypeError heapify
\* raised on the way.
calculate_distances(locs) ==
    IF \E a \in Range(locs) : NeighborList(locs, a).err
    THEN [err |-> TRUE, map |-> <<>>]
    ELSE [err |-> FALSE, map |-> [a \in Range(locs) |-> NeighborList(locs, a).heap]]

\* ------------------------------------------------------------------ state

VARIABLES
    locations,          \* PathFinderAlgo.locations: the list read from the location file
    pc,                 \* where the harness is: loaded, indexed, routing, routed, checked, optimized, error
    err,                \* the exception that ended the run: none, TypeError, KeyError, ValueError
    distances,          \* the map calculate_distances returned
    algo,               \* the router in use: none, greedy, clustered
    starting_point,     \* calculate_shortest_path's starting_point
    num_clusters,       \* params["num_clusters"] of the clustered router
    cluster_labels,     \* KMeans.fit_predict: the cluster label of every coordinate
    current_cluster_id, \* the cluster the clustered router is working through
    visited,            \* the router's visited set
    steps,              \* the router's steps, each <<coor_a, coor_b>>
    current,            \* the router's current location
    visited_log,        \* per step, the visited set the router held when it took the step
    route,              \* the Route the router returned
    is_valid,           \* what check_route returned
    reported,           \* the defect classes check_route printed
    best_start,         \* what find_best_starting_point returned
    kmeans_fit,         \* per n_clusters, the labels KMeans (random_state = 42) gives on the list
    remembered,         \* an earlier invocation and the route it returned
    between,            \* has another invocation returned since the remembered one?
    params,             \* how the clustered router was called: not called, omitted, no key, given
    max_clusters,       \* optimize_parameters' max_clusters
    evaluations,        \* the (start, cluster count) trials optimize_parameters ran, in order
    best_cluster_size,  \* optimize_parameters' best_cluster_size
    returned,           \* the components of the value optimize_parameters returned
    it_pc,              \* CheckpointIterator: idle, constructed, processing, returned, crashed
    items,              \* self.items
    key_fields,         \* is key_fields given (non-empty)?
    tracking,           \* what item_key does on a result record: "key" or "raises"
    checkpoint_every,   \* self.checkpoint_every
    file,               \* the CSV at output_path: does it exist, and its rows (cell text)
    results,            \* self.results
    completed_keys,     \* self.completed_keys
    items_to_process,   \* process(): items_to_process
    it_i,               \* process(): i, the number of items the loop has handled
    outcomes,           \* per handled item, what process_func did: record, none, raise, interrupt
    loaded,             \* self.results as _load_existing left it
    saved_keys,         \* the items whose records the file holds
    saved_at_start,     \* saved_keys when the iterator was constructed
    runs,               \* how many iterators were constructed on the file
    uniform,            \* did every run so far get the same items, a record for each?
    b_pc,               \* batch_scrape_races: idle, scraping, done, stopped
    race_urls,          \* the races of the races file, in file order
    missing_years,      \* per race, the years the missing-years file lists
    records_per_year,   \* how many timed racers the API holds for a race-year
    output,             \* the CSV at output_path: does it exist, and its rows
    plan,               \* what get_scraping_plan returned
    race_idx,           \* the race of the plan being scraped
    year_idx,           \* the year of that race being scraped
    count,              \* the records of that year written so far
    faulted,            \* did the run in progress hit an error?
    batch_runs,         \* how often batch_scrape_races was run
    last_error,         \* the exception the step just taken caught, NoError if none
    s_pc,               \* _scrape_single_year: idle, fetching, finished, rate limit exceeded, http error
    max_retries,        \* _scrape_single_year's max_retries
    retry_count,        \* retry_count of the page being fetched
    page,               \* the page being fetched
    statuses,           \* the status of every answer to a request for that page
    waits,              \* the seconds slept before every retry for that page
    total_pages,        \* last_page as the first page told it, 0 before
    mode,               \* the PathFinderHarness method that runs: none, run, optimize_starting_point
    index_builds,       \* how often calculate_distances was called on the list
    written,            \* the files the harness wrote, in order
    trials_index,       \* which build of the index the optimizer's trials read, 0 before
    route_index         \* which build of the index the harness's route was made from, 0 before

\* The state of the route finder.
router_vars == <<locations, pc, err, distances, algo, starting_point, num_clusters,
                 cluster_labels, current_cluster_id, visited, steps, current,
                 visited_log, route, is_valid, reported, best_start, kmeans_fit,
                 remembered, between>>

\* The state of optimize_parameters.
tuning_vars == <<max_clusters, evaluations, best_cluster_size, returned>>

\* The state of a CheckpointIterator and its output file.
iter_vars == <<it_pc, items, key_fields, tracking, checkpoint_every, file, results,
               completed_keys, items_to_process, it_i, outcomes, loaded, saved_keys,
               saved_at_start, runs, uniform>>

\* The state of batch_scrape_races, its input files and its output file.
batch_vars == <<b_pc, race_urls, missing_years, records_per_year, output, plan,
                race_idx, year_idx, count, faulted, batch_runs, last_error>>

\* The state of _scrape_single_year.
scraper_vars == <<s_pc, max_retries, retry_count, page, statuses, waits, total_pages>>

\* The state of a PathFinderHarness method.
harness_vars == <<mode, index_builds, written, trials_index, route_index>>

vars == <<router_vars, params, tuning_vars, iter_vars, batch_vars, scraper_vars,
          harness_vars>>

\* No CheckpointIterator exists and there is no output file.
IterIdle(kf, tr, ce) ==
    /\ it_pc = "idle"
    /\ items = <<>>
    /\ key_fields = kf
    /\ tracking = tr
    /\ checkpoint_every = ce
    /\ file = [exists |-> FALSE, rows |-> <<>>]
    /\ results = <<>>
    /\ completed_keys = {}
    /\ items_to_process = <<>>
    /\ it_i = 0
    /\ outcomes = <<>>
    /\ loaded = <<>>
    /\ saved_keys = {}
    /\ saved_at_start = {}
    /\ runs = 0
    /\ uniform = TRUE

\* No exception.
NoError == [type |-> "none", message |-> <<>>]

\* batch_scrape_races was never run: no input files are read, no output.
BatchIdle ==
    /\ b_pc = "unused"
    /\ race_urls = <<>>
    /\ missing_years = <<>>
    /\ records_per_year = 0
    /\ output = [exists |-> FALSE, rows |-> <<>>]
    /\ plan = <<>>
    /\ race_idx = 0
    /\ year_idx = 0
    /\ count = 0
    /\ faulted = FALSE
    /\ batch_runs = 0
    /\ last_error = NoError

\* _scrape_single_year was never called.
ScraperIdle ==
    /\ s_pc = "unused"
    /\ max_retries = 0
    /\ retry_count = 0
    /\ page = 0
    /\ statuses = <<>>
    /\ waits = <<>>
    /\ total_pages = 0

\* No PathFinderHarness method runs: the algorithm object is used directly.
HarnessIdle ==
    /\ mode = "none"
    /\ index_builds = 0
    /\ written = <<>>
    /\ trials_index = 0
    /\ route_index = 0

\* Python's None, where a Coordinate or a cluster id is expected.
None == 0 - 1

NoRoute == [start |-> None, end |-> None, steps |-> <<>>]

\* ---------------------------------------------------------- greedy router

staten_island_coords(locs) == {c \in Range(locs) : get_borough(c) = "Staten Island"}

\* LockIn switched off: no step is held inside Staten Island.
LockIn_Never(locs, vis, cur) == FALSE

\* The lock-in test of both routers: the current location is in Staten
\* Island and a Staten Island location is still unvisited.
LockIn(locs, vis, cur) ==
    get_borough(cur) = "Staten Island" /\ (staten_island_coords(locs) \ vis) # {}

\* The first entry of the neighbour list nn whose coordinate is in ok.
FirstIn(nn, ok) ==
    LET hits == {i \in 1..Len(nn) : nn[i][2] \in ok}
    IN  IF hits = {} THEN None
        ELSE nn[CHOOSE i \in hits : \A j \in hits : i <= j][2]

\* GreedyNext without the staten_island_complete test: inside Staten Island
\* only Staten Island entries count, also once all of them are visited.
GreedyNext_NoCompleteTest(locs, dist, vis, cur) ==
    IF get_borough(cur) = "Staten Island"
    THEN FirstIn(dist[cur], staten_island_coords(locs) \ vis)
    ELSE FirstIn(dist[cur], Coords \ vis)

\* One scan of the greedy router's loop body: the first unvisited entry of
\* the current location's list, a Staten Island one while the lock-in holds.
GreedyNext(locs, dist, vis, cur) ==
    IF LockIn(locs, vis, cur)
    THEN FirstIn(dist[cur], staten_island_coords(locs) \ vis)
    ELSE FirstIn(dist[cur], Coords \ vis)

\* -------------------------------------------------------- clustered router

RECURSIVE SumSeq(_)
SumSeq(s) == IF s = <<>> THEN 0 ELSE Head(s) + SumSeq(Tail(s))

\* clusters[label]: the list entries with that label, in list order.
ClusterMembers(locs, labels, id) == SelectSeq(locs, LAMBDA c : labels[c] = id)

\* Is the centroid of cluster a strictly nearer to point p than the centroid
\* of cluster b?  A centroid is the mean of its members: the distances
\* |p - sum/n| are compared by cross-multiplication.
CentroidNearer(locs, labels, p, a, b) ==
    LET ma == ClusterMembers(locs, labels, a)
        mb == ClusterMembers(locs, labels, b)
    IN  Abs(p * Len(ma) - SumSeq(ma)) * Len(mb) < Abs(p * Len(mb) - SumSeq(mb)) * Len(ma)

\* What KMeans(n_clusters = k, random_state = 42).fit_predict can return on
\* the list: a label below k for every coordinate, every coordinate with the
\* cluster whose centroid is nearest to it (at convergence).
KMeansOutcomes(locs, k) ==
    {labels \in [Range(locs) -> 0..(k - 1)] :
        \A c \in Range(locs) : \A m \in {labels[x] : x \in Range(locs)} :
            ~CentroidNearer(locs, labels, c, m, labels[c])}

\* find_nearest_cluster: the available cluster with the nearest centroid; the
\* scan keeps the first minimum, and the ids are scanned in ascending order.
find_nearest_cluster(locs, labels, from_point, available) ==
    IF available = {} THEN None
    ELSE CHOOSE a \in available :
           \A b \in available \ {a} :
              \/ CentroidNearer(locs, labels, from_point, a, b)
              \/ (~CentroidNearer(locs, labels, from_point, b, a) /\ a < b)

\* The cluster the loop body works in once the lock-in is out of the way:
\* the current one while it has unvisited members, else the nearest cluster
\* that has.
NextClusterId(locs, labels, vis, cur, cid) ==
    IF \E c \in Range(locs) : labels[c] = cid /\ c \notin vis THEN cid
    ELSE LET unvisited_cluster_ids == {labels[c] : c \in Range(locs) \ vis}
         IN  IF unvisited_cluster_ids # {}
             THEN find_nearest_cluster(locs, labels, cur, unvisited_cluster_ids)
             ELSE cid

\* ClusterCandidates without the clusters: outside the lock-in every
\* unvisited location is a candidate.
ClusterCandidates_AnyUnvisited(locs, labels, vis, cur, cid) ==
    IF LockIn(locs, vis, cur) THEN staten_island_coords(locs) \ vis
    ELSE Range(locs) \ vis

\* The candidates of one loop body of the clustered router.
ClusterCandidates(locs, labels, vis, cur, cid) ==
    IF LockIn(locs, vis, cur) THEN staten_island_coords(locs) \ vis
    ELSE {c \in Range(locs) \ vis : labels[c] = NextClusterId(locs, labels, vis, cur, cid)}

\* One loop body of the clustered router: the nearest unvisited candidate,
\* else (the fallback) the nearest unvisited location.
ClusteredNext(locs, dist, labels, vis, cur, cid) ==
    LET first == FirstIn(dist[cur], ClusterCandidates(locs, labels, vis, cur, cid) \ vis)
    IN  IF first # None THEN first
        ELSE FirstIn(dist[cur], Range(locs) \ vis)

\* LeavesLoop with the break removed: the loop is never left for want of a
\* candidate.
LeavesLoop_Never(next_location) == FALSE

\* 'if next_location is None: break', in both routers.
LeavesLoop(next_location) == next_location = None

\* ------------------------------------------------ whole router invocations

\* PathFinderAlgo.calculate_shortest_path from its loop on, for a starting
\* point that is a key of the index: the Route it returns.
RECURSIVE GreedyLoop(_, _, _, _, _, _)
GreedyLoop(locs, dist, s, vis, cur, stps) ==
    LET next_location == IF Cardinality(vis) < Len(locs)
                         THEN GreedyNext(locs, dist, vis, cur)
                         ELSE None
    IN  IF next_location = None
        THEN [start |-> s, end |-> cur, steps |-> stps]
        ELSE GreedyLoop(locs, dist, s, vis \cup {next_location}, next_location,
                        Append(stps, <<cur, next_location>>))

GreedyRoute(locs, dist, s) == GreedyLoop(locs, dist, s, {s}, s, <<>>)

\* ClusteredPathFinderAlgo.calculate_shortest_path from its loop on, under
\* the cluster labels KMeans returned.
RECURSIVE ClusteredLoop(_, _, _, _, _, _, _, _)
ClusteredLoop(locs, dist, labels, s, vis, cur, cid, stps) ==
    LET next_location == IF Cardinality(vis) < Len(locs)
                         THEN ClusteredNext(locs, dist, labels, vis, cur, cid)
                         ELSE None
    IN  IF next_location = None
        THEN [start |-> s, end |-> cur, steps |-> stps]
        ELSE ClusteredLoop(locs, dist, labels, s, vis \cup {next_location},
                           next_location, labels[next_location],
                           Append(stps, <<cur, next_location>>))

ClusteredRoute(locs, dist, labels, s) ==
    ClusteredLoop(locs, dist, labels, s, {s}, s, labels[s], <<>>)

\* RouteStep.distance and Route.total_distance.
RECURSIVE SumDistances(_, _)
SumDistances(stps, i) ==
    IF i > Len(stps) THEN 0
    ELSE distance_to(stps[i][1], stps[i][2]) + SumDistances(stps, i + 1)

total_distance(r) == SumDistances(r.steps, 1)

\* ---------------------------------------------------------------- optimizer

\* The router find_best_starting_point calls on self: the greedy one, or the
\* clustered one under the labels KMeans gives.
RouteFrom(kind, locs, dist, labels, s) ==
    IF kind = "greedy" THEN GreedyRoute(locs, dist, s)
    ELSE ClusteredRoute(locs, dist, labels, s)

\* The total distance of the route from every list entry, in list order.
TrialTotals(kind, locs, dist, labels) ==
    [i \in 1..Len(locs) |-> total_distance(RouteFrom(kind, locs, dist, labels, locs[i]))]

\* Improves with <= for <: a later trial with the same total replaces the best.
Improves_OrEqual(total, best) == best.inf \/ total <= best.distance

\* The comparison of the optimizer's loop: a trial replaces the best so far
\* when its total is strictly smaller (best_distance starts at infinity).
Improves(total, best) == best.inf \/ total < best.distance

\* The loop of find_best_starting_point from list position i on.
RECURSIVE BestScan(_, _, _, _)
BestScan(locs, totals, i, best) ==
    IF i > Len(locs) THEN best
    ELSE BestScan(locs, totals, i + 1,
                  IF Improves(totals[i], best)
                  THEN [start |-> locs[i], inf |-> FALSE, distance |-> totals[i]]
                  ELSE best)

\* PathFinderAlgo.find_best_starting_point: best_start.
find_best_starting_point(locs, totals) ==
    BestScan(locs, totals, 1, [start |-> None, inf |-> TRUE, distance |-> 0]).start

\* ------------------------------------------------------------ check_route

\* all_route_coords: both ends of the first step, then every destination.
RouteCoords(stps) ==
    IF stps = <<>> THEN <<>>
    ELSE <<stps[1][1]>> \o [i \in 1..Len(stps) |-> stps[i][2]]

\* The duplicate scan: does a coordinate of arc, from position i on, meet
\* itself in visited_coords (seen), which the scan fills as it goes?
RECURSIVE DuplicateScan(_, _, _)
DuplicateScan(arc, i, seen) ==
    IF i > Len(arc) THEN FALSE
    ELSE arc[i] \in seen \/ DuplicateScan(arc, i + 1, seen \cup {arc[i]})

\* check_route returning at the first defect it meets.
check_route_FirstDefectOnly(locs, r) ==
    LET arc == RouteCoords(r.steps)
        n == Len(r.steps)
    IN  IF DuplicateScan(arc, 1, {}) THEN {"duplicate"}
        ELSE IF Range(locs) \ Range(arc) # {} THEN {"missing"}
        ELSE IF Range(arc) \ Range(locs) # {} THEN {"extra"}
        ELSE IF \E i \in 1..(n - 1) : r.steps[i][2] # r.steps[i + 1][1] THEN {"discontinuity"}
        ELSE IF n = 0 THEN {"no steps"}
        ELSE IF r.steps[1][1] # r.start THEN {"start mismatch"}
        ELSE IF r.steps[n][2] # r.end THEN {"end mismatch"}
        ELSE {}

\* PathFinderAlgo.check_route: the defect classes it prints for the route r.
\* It returns True when it printed none.
check_route(locs, r) ==
    LET arc == RouteCoords(r.steps)
        visited_coords == Range(arc)
        expected_locations == Range(locs)
        n == Len(r.steps)
    IN  (IF DuplicateScan(arc, 1, {}) THEN {"duplicate"} ELSE {})
        \cup (IF expected_locations \ visited_coords # {} THEN {"missing"} ELSE {})
        \cup (IF visited_coords \ expected_locations # {} THEN {"extra"} ELSE {})
        \cup (IF \E i \in 1..(n - 1) : r.steps[i][2] # r.steps[i + 1][1]
              THEN {"discontinuity"} ELSE {})
        \cup (IF n > 0
              THEN (IF r.steps[1][1] # r.start THEN {"start mismatch"} ELSE {})
                   \cup (IF r.steps[n][2] # r.end THEN {"end mismatch"} ELSE {})
              ELSE {"no steps"})

\* ---------------------------------------------------------------- actions

\* The starting point pick_starting_point returns: a saved coordinate, which
\* is a location of the list or is not.  SavedStart stands for one that is
\* not (it lies off the grid).
SavedStart == 100

StartChoices == Range(locations) \cup {SavedStart}

Lists(n) == SeqsUpTo(Coords, n)

RouterInit(locs) ==
    /\ locations \in locs
    /\ pc = "loaded"
    /\ err = "none"
    /\ distances = <<>>
    /\ algo = "none"
    /\ starting_point = None
    /\ num_clusters = 0
    /\ cluster_labels = <<>>
    /\ current_cluster_id = None
    /\ visited = {}
    /\ steps = <<>>
    /\ current = None
    /\ visited_log = <<>>
    /\ route = NoRoute
    /\ is_valid = FALSE
    /\ reported = {}
    /\ best_start = None
    /\ kmeans_fit = <<>>
    /\ remembered = <<>>
    /\ between = FALSE
    /\ params = "not called"
    /\ max_clusters = 0
    /\ evaluations = <<>>
    /\ best_cluster_size = None
    /\ returned = <<>>

InitWith(locs) ==
    RouterInit(locs) /\ IterIdle(FALSE, "key", 1) /\ BatchIdle /\ ScraperIdle /\ HarnessIdle

Init == InitWith(Lists(MaxLocs))

\* PathFinderHarness.run, step 2: the index is built.
CalculateDistances ==
    /\ pc = "loaded"
    /\ LET r == calculate_distances(locations)
       IN  IF r.err
           THEN /\ pc' = "error"
                /\ err' = "TypeError"
                /\ UNCHANGED distances
           ELSE /\ pc' = "indexed"
                /\ distances' = r.map
                /\ UNCHANGED err
    /\ UNCHANGED <<locations, algo, starting_point, num_clusters, cluster_labels,
                   current_cluster_id, visited, steps, current, visited_log,
                   route, is_valid, reported, best_start, kmeans_fit, remembered,
                   between>>
    /\ index_builds' = index_builds + 1
    /\ UNCHANGED <<mode, written, trials_index, route_index>>
    /\ UNCHANGED <<params, tuning_vars, iter_vars, batch_vars, scraper_vars>>

\* What every invocation of a router sets up before its loop.
Enter(kind, s) ==
    /\ algo' = kind
    /\ starting_point' = s
    /\ visited' = {s}
    /\ steps' = <<>>
    /\ current' = s
    /\ visited_log' = <<>>
    /\ route' = NoRoute
    /\ is_valid' = FALSE
    /\ reported' = {}

\* PathFinderAlgo.calculate_shortest_path is entered.
StartGreedy ==
    /\ pc = "indexed"
    /\ \E s \in StartChoices : Enter("greedy", s)
    /\ pc' = "routing"
    /\ UNCHANGED <<locations, err, distances, num_clusters, cluster_labels,
                   current_cluster_id, best_start, kmeans_fit, remembered, between>>
    /\ UNCHANGED <<params, tuning_vars, iter_vars, batch_vars, scraper_vars, harness_vars>>

\* IndexAfterScan with a scan that consumes what it reads: the entry at the
\* head of the list is popped.
IndexAfterScan_Popped(dist, cur) ==
    IF dist[cur] = <<>> THEN dist ELSE [dist EXCEPT ![cur] = Tail(@)]

\* The index after a router scanned the list of `cur` for its next
\* location: the for loop over distances[current] only reads.
IndexAfterScan(dist, cur) == dist

\* The loop of the greedy router takes a step.
GreedyAdvance ==
    /\ pc = "routing" /\ algo = "greedy"
    /\ Cardinality(visited) < Len(locations)
    /\ current \in DOMAIN distances
    /\ LET next_location == GreedyNext(locations, distances, visited, current)
       IN  /\ next_location # None
           /\ steps' = Append(steps, <<current, next_location>>)
           /\ visited_log' = Append(visited_log, visited)
           /\ visited' = visited \cup {next_location}
           /\ current' = next_location
    /\ distances' = IndexAfterScan(distances, current)
    /\ UNCHANGED <<locations, pc, err, algo, starting_point, num_clusters,
                   cluster_labels, current_cluster_id, route, is_valid, reported,
                   best_start, kmeans_fit, remembered, between>>
    /\ UNCHANGED <<params, tuning_vars, iter_vars, batch_vars, scraper_vars, harness_vars>>

\* The loop of the greedy router ends, all visited or no candidate left, and
\* the Route is returned.
GreedyReturn ==
    /\ pc = "routing" /\ algo = "greedy"
    /\ \/ Cardinality(visited) >= Len(locations)
       \/ /\ current \in DOMAIN distances
          /\ LeavesLoop(GreedyNext(locations, distances, visited, current))
    /\ route' = [start |-> starting_point, end |-> current, steps |-> steps]
    /\ pc' = "routed"
    /\ UNCHANGED <<locations, err, distances, algo, starting_point, num_clusters,
                   cluster_labels, current_cluster_id, visited, steps, current,
                   visited_log, is_valid, reported, best_start, kmeans_fit,
                   remembered, between>>
    /\ UNCHANGED <<params, tuning_vars, iter_vars, batch_vars, scraper_vars, harness_vars>>

\* distances[current] raises KeyError: the starting point is no key of the index.
GreedyKeyError ==
    /\ pc = "routing" /\ algo = "greedy"
    /\ Cardinality(visited) < Len(locations)
    /\ current \notin DOMAIN distances
    /\ pc' = "error"
    /\ err' = "KeyError"
    /\ UNCHANGED <<locations, distances, algo, starting_point, num_clusters,
                   cluster_labels, current_cluster_id, visited, steps, current,
                   visited_log, route, is_valid, reported, best_start, kmeans_fit,
                   remembered, between>>
    /\ UNCHANGED <<params, tuning_vars, iter_vars, batch_vars, scraper_vars, harness_vars>>

\* The cluster count in the default value of the params argument.
DefaultNumClusters == 20

\* num_clusters before params is looked at: what a params dict without the
\* "num_clusters" key leaves in place.
FallbackNumClusters == 5

\* A params dict without the "num_clusters" key.
EmptyParams == [key \in {} |-> 0]

\* DefaultParams without its key: an empty default dict.
DefaultParams_NoKey == [key \in {} |-> 0]

\* The default value of the params argument, {"num_clusters": 20}.
DefaultParams == [num_clusters |-> DefaultNumClusters]

\* The dict calculate_shortest_path works with for a call that omits params
\* or passes a dict without the key.
ParamsOf(how) == IF how = "omitted" THEN DefaultParams ELSE EmptyParams

\* The cluster count the clustered router takes from params.
num_clusters_of(p) ==
    IF "num_clusters" \in DOMAIN p THEN p.num_clusters ELSE FallbackNumClusters

\* FitChoices without the fixed seed: every fit is free to differ.
FitChoices_Unseeded(k) == KMeansOutcomes(locations, k)

\* KMeans(n_clusters = k, random_state = 42).fit_predict on the list: the
\* fit already made for k, the seed being fixed, else any outcome.
FitChoices(k) ==
    IF k \in DOMAIN kmeans_fit THEN {kmeans_fit[k]} ELSE KMeansOutcomes(locations, k)

\* ClusteredPathFinderAlgo.calculate_shortest_path is entered, with
\* params = {"num_clusters": k}.
StartClustered ==
    /\ pc = "indexed"
    /\ Len(locations) > 0
    /\ Len(locations) <= ClusteredMaxLocs
    /\ \E k \in 1..MaxClusters :
         \E labels \in FitChoices(Min2(k, Len(locations))) :
         \E s \in Range(locations) :
            /\ Enter("clustered", s)
            /\ num_clusters' = k
            /\ cluster_labels' = labels
            /\ kmeans_fit' = (Min2(k, Len(locations)) :> labels) @@ kmeans_fit
            /\ current_cluster_id' = labels[locations[IndexOf(locations, s)]]
    /\ params' = "given"
    /\ pc' = "routing"
    /\ UNCHANGED <<locations, err, distances, best_start, remembered, between>>
    /\ UNCHANGED <<tuning_vars, iter_vars, batch_vars, scraper_vars, harness_vars>>

\* ClusteredPathFinderAlgo.calculate_shortest_path is entered without a
\* cluster count: params is omitted, as PathFinderHarness.run and
\* find_best_starting_point do, or is a dict without the key.
StartClusteredDefault ==
    /\ pc = "indexed"
    /\ Len(locations) > 0
    /\ Len(locations) <= ClusteredMaxLocs
    /\ \E how \in {"omitted", "no key"} :
         LET k == num_clusters_of(ParamsOf(how))
         IN  \E labels \in FitChoices(Min2(k, Len(locations))) :
             \E s \in Range(locations) :
                /\ Enter("clustered", s)
                /\ params' = how
                /\ num_clusters' = k
                /\ cluster_labels' = labels
                /\ kmeans_fit' = (Min2(k, Len(locations)) :> labels) @@ kmeans_fit
                /\ current_cluster_id' = labels[locations[IndexOf(locations, s)]]
    /\ pc' = "routing"
    /\ UNCHANGED <<locations, err, distances, best_start, remembered, between>>
    /\ UNCHANGED <<tuning_vars, iter_vars, batch_vars, scraper_vars, harness_vars>>

\* The clustered router raises ValueError before its loop: KMeans on an
\* empty list (n_clusters = 0), or locations.index of a starting point that
\* is not in the list.
ClusteredValueError ==
    /\ pc = "indexed"
    /\ \E s \in StartChoices :
         /\ Len(locations) = 0 \/ s \notin Range(locations)
         /\ algo' = "clustered"
         /\ starting_point' = s
    /\ pc' = "error"
    /\ err' = "ValueError"
    /\ UNCHANGED <<locations, distances, num_clusters, cluster_labels,
                   current_cluster_id, visited, steps, current, visited_log,
                   route, is_valid, reported, best_start, kmeans_fit, remembered,
                   between>>
    /\ UNCHANGED <<params, tuning_vars, iter_vars, batch_vars, scraper_vars, harness_vars>>

\* The loop of the clustered router takes a step.
ClusteredAdvance ==
    /\ pc = "routing" /\ algo = "clustered"
    /\ Cardinality(visited) < Len(locations)
    /\ LET next_location == ClusteredNext(locations, distances, cluster_labels,
                                          visited, current, current_cluster_id)
       IN  /\ next_location # None
           /\ steps' = Append(steps, <<current, next_location>>)
           /\ visited_log' = Append(visited_log, visited)
           /\ visited' = visited \cup {next_location}
           /\ current' = next_location
           /\ current_cluster_id' = cluster_labels[locations[IndexOf(locations, next_location)]]
    /\ distances' = IndexAfterScan(distances, current)
    /\ UNCHANGED <<locations, pc, err, algo, starting_point, num_clusters,
                   cluster_labels, route, is_valid, reported, best_start, kmeans_fit,
                   remembered, between>>
    /\ UNCHANGED <<params, tuning_vars, iter_vars, batch_vars, scraper_vars, harness_vars>>

\* The loop of the clustered router ends, all visited or no location left,
\* and the Route is returned.
ClusteredReturn ==
    /\ pc = "routing" /\ algo = "clustered"
    /\ \/ Cardinality(visited) >= Len(locations)
       \/ LeavesLoop(ClusteredNext(locations, distances, cluster_labels, visited,
                                    current, current_cluster_id))
    /\ route' = [start |-> starting_point, end |-> current, steps |-> steps]
    /\ pc' = "routed"
    /\ UNCHANGED <<locations, err, distances, algo, starting_point, num_clusters,
                   cluster_labels, current_cluster_id, visited, steps, current,
                   visited_log, is_valid, reported, best_start, kmeans_fit,
                   remembered, between>>
    /\ UNCHANGED <<params, tuning_vars, iter_vars, batch_vars, scraper_vars, harness_vars>>

\* PathFinderHarness.run, step 4: check_route on the route the router returned.
CheckRoute ==
    /\ pc = "routed"
    /\ reported' = check_route(locations, route)
    /\ is_valid' = (check_route(locations, route) = {})
    /\ pc' = "checked"
    /\ UNCHANGED <<locations, err, distances, algo, starting_point, num_clusters,
                   cluster_labels, current_cluster_id, visited, steps, current,
                   visited_log, route, best_start, kmeans_fit, remembered, between>>
    /\ UNCHANGED <<params, tuning_vars, iter_vars, batch_vars, scraper_vars, harness_vars>>

\* PathFinderAlgo.find_best_starting_point on a freshly loaded list, with
\* the greedy router (PathFinderAlgo) or the clustered one
\* (ClusteredPathFinderAlgo, which inherits it and is called without params).
FindBestStartingPoint ==
    /\ pc = "loaded"
    /\ LET r == calculate_distances(locations)
           k == Min2(num_clusters_of(DefaultParams), Len(locations))
       IN  IF r.err
           THEN /\ pc' = "error"
                /\ err' = "TypeError"
                /\ \E kind \in {"greedy", "clustered"} : algo' = kind
                /\ UNCHANGED <<best_start, cluster_labels, num_clusters, params>>
           ELSE /\ pc' = "optimized"
                /\ \/ /\ algo' = "greedy"
                      /\ best_start' = find_best_starting_point(locations,
                                          TrialTotals("greedy", locations, r.map, <<>>))
                      /\ UNCHANGED <<cluster_labels, num_clusters, params>>
                   \/ /\ algo' = "clustered"
                      /\ params' = "omitted"
                      /\ num_clusters' = num_clusters_of(DefaultParams)
                      /\ \E labels \in KMeansOutcomes(locations, k) :
                            /\ cluster_labels' = labels
                            /\ best_start' = find_best_starting_point(locations,
                                                TrialTotals("clustered", locations, r.map, labels))
                /\ UNCHANGED err
    /\ UNCHANGED <<locations, distances, starting_point, current_cluster_id, visited,
                   steps, current, visited_log, route, is_valid, reported, kmeans_fit,
                   remembered, between>>
    /\ index_builds' = index_builds + 1
    /\ UNCHANGED <<mode, written, trials_index, route_index>>
    /\ UNCHANGED <<tuning_vars, iter_vars, batch_vars, scraper_vars>>

\* One harness run: the index, one router invocation, the validation.
Next ==
    \/ CalculateDistances
    \/ StartGreedy
    \/ GreedyAdvance
    \/ GreedyReturn
    \/ GreedyKeyError
    \/ StartClustered
    \/ StartClusteredDefault
    \/ ClusteredValueError
    \/ ClusteredAdvance
    \/ ClusteredReturn
    \/ CheckRoute

Spec == Init /\ [][Next]_vars

\* A pass of the loop of a router, or its return: sequential code that is
\* never suspended.
RouterStep ==
    \/ GreedyAdvance
    \/ GreedyReturn
    \/ GreedyKeyError
    \/ ClusteredAdvance
    \/ ClusteredReturn

InitTermination == InitWith(Lists(TerminationMaxLocs))

\* The index is built and a router is invoked, with any starting point and,
\* for the clustered router, a given cluster count.
NextTermination ==
    \/ CalculateDistances
    \/ StartGreedy
    \/ StartClustered
    \/ ClusteredValueError
    \/ RouterStep

\* A router invocation in which the router, once entered, keeps running.
SpecTermination == InitTermination /\ [][NextTermination]_vars /\ WF_vars(RouterStep)

\* The optimizer alone, on every list of at most OptMaxLocs locations.
InitOpt == InitWith(Lists(OptMaxLocs))

NextOpt == FindBestStartingPoint

SpecOpt == InitOpt /\ [][NextOpt]_vars

\* ------------------------------------------------------ PathFinderHarness

\* Longest location list of a run of a harness method.
HarnessMaxLocs == 3

\* GoesOn with a test of is_valid before the rendering.
GoesOn_OnlyIfValid(valid) == valid

\* Does the harness method go on after check_route returned `valid`?  It
\* prints the value and tests nothing.
GoesOn(valid) == TRUE

\* The files a harness method writes, in the order it writes them.
HarnessFiles == <<"route.png", "diags.csv", "route.json">>

\* optimize_starting_point, step 3: find_best_starting_point of the
\* clustered algorithm, which builds an index of its own for its trials.
HarnessFindBestStartingPoint ==
    /\ mode = "optimize_starting_point"
    /\ pc = "indexed"
    /\ LET r == calculate_distances(locations)
           k == Min2(num_clusters_of(DefaultParams), Len(locations))
       IN  /\ \E labels \in FitChoices(k) :
                /\ cluster_labels' = labels
                /\ kmeans_fit' = (k :> labels) @@ kmeans_fit
                /\ best_start' = find_best_starting_point(locations,
                                    TrialTotals("clustered", locations, r.map, labels))
           /\ index_builds' = index_builds + 1
           /\ trials_index' = index_builds + 1
    /\ algo' = "clustered"
    /\ params' = "omitted"
    /\ num_clusters' = num_clusters_of(DefaultParams)
    /\ pc' = "optimized"
    /\ UNCHANGED <<locations, err, distances, starting_point, current_cluster_id,
                   visited, steps, current, visited_log, route, is_valid, reported,
                   remembered, between>>
    /\ UNCHANGED <<mode, written, route_index>>
    /\ UNCHANGED <<tuning_vars, iter_vars, batch_vars, scraper_vars>>

\* run, step 3, and optimize_starting_point, step 4: the clustered router
\* is called without params, from pick_starting_point() or from best_start,
\* on the index the harness built in step 2.  It raises ValueError before
\* its loop on an empty list and on a starting point that is not in the list.
HarnessRoute ==
    /\ \/ mode = "run" /\ pc = "indexed"
       \/ mode = "optimize_starting_point" /\ pc = "optimized"
    /\ \E s \in IF mode = "run" THEN StartChoices ELSE {best_start} :
         LET k == Min2(num_clusters_of(DefaultParams), Len(locations))
         IN  IF Len(locations) = 0 \/ s \notin Range(locations)
             THEN /\ algo' = "clustered"
                  /\ starting_point' = s
                  /\ pc' = "error"
                  /\ err' = "ValueError"
                  /\ UNCHANGED <<num_clusters, cluster_labels, current_cluster_id,
                                 visited, steps, current, visited_log, route,
                                 is_valid, reported, kmeans_fit, params, route_index>>
             ELSE /\ \E labels \in FitChoices(k) :
                       /\ cluster_labels' = labels
                       /\ kmeans_fit' = (k :> labels) @@ kmeans_fit
                       /\ current_cluster_id' = labels[locations[IndexOf(locations, s)]]
                  /\ Enter("clustered", s)
                  /\ params' = "omitted"
                  /\ num_clusters' = num_clusters_of(DefaultParams)
                  /\ route_index' = 1
                  /\ pc' = "routing"
                  /\ UNCHANGED err
    /\ UNCHANGED <<locations, distances, best_start, remembered, between>>
    /\ UNCHANGED <<mode, index_builds, written, trials_index>>
    /\ UNCHANGED <<tuning_vars, iter_vars, batch_vars, scraper_vars>>

\* The step of a harness method that writes HarnessFiles[i].
HarnessWrite(i, to) ==
    /\ mode # "none"
    /\ written' = Append(written, HarnessFiles[i])
    /\ pc' = to
    /\ UNCHANGED <<locations, err, distances, algo, starting_point, num_clusters,
                   cluster_labels, current_cluster_id, visited, steps, current,
                   visited_log, route, is_valid, reported, best_start, kmeans_fit,
                   remembered, between>>
    /\ UNCHANGED <<mode, index_builds, trials_index, route_index>>
    /\ UNCHANGED <<params, tuning_vars, iter_vars, batch_vars, scraper_vars>>

\* PathRenderer().render_route: route.png is saved, whatever check_route said.
RenderRoute ==
    /\ pc = "checked"
    /\ GoesOn(is_valid)
    /\ HarnessWrite(1, "rendered")

\* write_metrics_to_file(output_path / "diags.csv").
WriteDiags ==
    /\ pc = "rendered"
    /\ HarnessWrite(2, "diags written")

\* json.dump of start, end and distance into route.json.
WriteRouteJson ==
    /\ pc = "diags written"
    /\ HarnessWrite(3, "finished")

InitHarness ==
    /\ RouterInit(Lists(HarnessMaxLocs))
    /\ IterIdle(FALSE, "key", 1)
    /\ BatchIdle
    /\ ScraperIdle
    /\ mode \in {"run", "optimize_starting_point"}
    /\ index_builds = 0
    /\ written = <<>>
    /\ trials_index = 0
    /\ route_index = 0

NextHarness ==
    \/ CalculateDistances
    \/ HarnessFindBestStartingPoint
    \/ HarnessRoute
    \/ ClusteredAdvance
    \/ ClusteredReturn
    \/ CheckRoute
    \/ RenderRoute
    \/ WriteDiags
    \/ WriteRouteJson

\* PathFinderHarness.run and PathFinderHarness.optimize_starting_point on
\* every list of at most HarnessMaxLocs locations.
SpecHarness == InitHarness /\ [][NextHarness]_vars

\* ------------------------------------------------- optimize_parameters

\* The fits KMeans (random_state = 42) can give optimize_parameters: one
\* labelling per n_clusters in 1..m, the same for every starting point.
TuningFits(locs, m) ==
    {fit \in [1..m -> UNION {KMeansOutcomes(locs, k) : k \in 1..m}] :
        \A k \in 1..m : fit[k] \in KMeansOutcomes(locs, k)}

\* The trials of optimize_parameters in the order it runs them: for n in
\* range(1, max_clusters), for every list entry, the route from that entry
\* with params {"num_clusters": n}, and its total distance.
RECURSIVE TuningTrials(_, _, _, _, _, _)
TuningTrials(locs, dist, fit, K, n, i) ==
    IF n >= K THEN <<>>
    ELSE IF i > Len(locs) THEN TuningTrials(locs, dist, fit, K, n + 1, 1)
    ELSE <<[start |-> locs[i], n |-> n,
            total |-> total_distance(
                ClusteredRoute(locs, dist, fit[Min2(n, Len(locs))], locs[i]))]>>
         \o TuningTrials(locs, dist, fit, K, n, i + 1)

\* The best-so-far bookkeeping of optimize_parameters over its trials.
RECURSIVE TuningScan(_, _, _)
TuningScan(trials, i, best) ==
    IF i > Len(trials) THEN best
    ELSE TuningScan(trials, i + 1,
                    IF Improves(trials[i].total, best)
                    THEN [start |-> trials[i].start, size |-> trials[i].n,
                          inf |-> FALSE, distance |-> trials[i].total]
                    ELSE best)

\* ClusteredPathFinderAlgo.optimize_parameters(max_clusters = K) on a freshly
\* loaded list: it returns best_start.
OptimizeParameters ==
    /\ pc = "loaded"
    /\ \E K \in 1..MaxMaxClusters :
         LET r == calculate_distances(locations)
             m == Min2(K - 1, Len(locations))
         IN  /\ max_clusters' = K
             /\ algo' = "clustered"
             /\ IF r.err
                THEN /\ pc' = "error"
                     /\ err' = "TypeError"
                     /\ UNCHANGED <<distances, kmeans_fit, evaluations, best_start,
                                    best_cluster_size, returned, params>>
                ELSE \E fit \in TuningFits(locations, m) :
                       LET trials == TuningTrials(locations, r.map, fit, K, 1, 1)
                           best == TuningScan(trials, 1,
                                      [start |-> None, size |-> None,
                                       inf |-> TRUE, distance |-> 0])
                       IN  /\ pc' = "tuned"
                           /\ distances' = r.map
                           /\ kmeans_fit' = fit
                           /\ evaluations' = trials
                           /\ best_start' = best.start
                           /\ best_cluster_size' = best.size
                           /\ returned' = <<best.start>>
                           /\ params' = IF trials = <<>> THEN "not called" ELSE "given"
                           /\ UNCHANGED err
    /\ UNCHANGED <<locations, starting_point, num_clusters, cluster_labels,
                   current_cluster_id, visited, steps, current, visited_log,
                   route, is_valid, reported, remembered, between>>
    /\ index_builds' = index_builds + 1
    /\ UNCHANGED <<mode, written, trials_index, route_index>>
    /\ UNCHANGED <<iter_vars, batch_vars, scraper_vars>>

InitTuning == InitWith(Lists(TuningMaxLocs))

NextTuning == OptimizeParameters

\* optimize_parameters alone, on every list of at most TuningMaxLocs locations.
SpecTuning == InitTuning /\ [][NextTuning]_vars

\* ------------------------------------------- repeated router invocations

\* The inputs of the invocation in progress that the caller chose (the list
\* and the index are those of the session).
InvocationKey == <<algo, starting_point, IF algo = "clustered" THEN num_clusters ELSE 0>>

\* The caller keeps the route an invocation returned, to compare later ones
\* with it.
Remember ==
    /\ pc = "routed"
    /\ remembered = <<>>
    /\ remembered' = <<[key |-> InvocationKey, route |-> route]>>
    /\ UNCHANGED <<locations, pc, err, distances, algo, starting_point, num_clusters,
                   cluster_labels, current_cluster_id, visited, steps, current,
                   visited_log, route, is_valid, reported, best_start, kmeans_fit,
                   between>>
    /\ UNCHANGED <<params, tuning_vars, iter_vars, batch_vars, scraper_vars, harness_vars>>

\* The invocation is over (its locals are gone) and the caller is free to
\* invoke a router again on the same list and index.
Again ==
    /\ pc \in {"routed", "checked"}
    /\ pc' = "indexed"
    /\ between' = (between \/ (remembered # <<>> /\ remembered[1].key # InvocationKey))
    /\ algo' = "none"
    /\ params' = "not called"
    /\ starting_point' = None
    /\ num_clusters' = 0
    /\ cluster_labels' = <<>>
    /\ current_cluster_id' = None
    /\ visited' = {}
    /\ steps' = <<>>
    /\ current' = None
    /\ visited_log' = <<>>
    /\ route' = NoRoute
    /\ is_valid' = FALSE
    /\ reported' = {}
    /\ UNCHANGED <<locations, err, distances, best_start, kmeans_fit, remembered>>
    /\ UNCHANGED <<tuning_vars, iter_vars, batch_vars, scraper_vars, harness_vars>>

InitSession == InitWith(Lists(SessionMaxLocs))

\* A session: the index, then router invocations one after another, the
\* route of any of them handed to check_route.
NextSession ==
    \/ CalculateDistances
    \/ StartGreedy
    \/ GreedyAdvance
    \/ GreedyReturn
    \/ GreedyKeyError
    \/ StartClustered
    \/ ClusteredValueError
    \/ ClusteredAdvance
    \/ ClusteredReturn
    \/ CheckRoute
    \/ Remember
    \/ Again

SpecSession == InitSession /\ [][NextSession]_vars

\* ------------------------------------------------ check_route on any route

\* The coordinates of the routes handed to check_route directly.
ValidatorCoords == {0, 2, 3}

\* Every Route of at most MaxSteps steps over ValidatorCoords: any steps,
\* any start, any end.
AnyRoutes ==
    [start : ValidatorCoords, end : ValidatorCoords,
     steps : SeqsUpTo(ValidatorCoords \X ValidatorCoords, MaxSteps)]

InitValidator ==
    /\ InitWith(SeqsUpTo(ValidatorCoords, ValidatorMaxLocs))

\* A caller hands check_route a Route of its own making.
HandRoute ==
    /\ pc = "loaded"
    /\ \E r \in AnyRoutes : route' = r
    /\ pc' = "routed"
    /\ UNCHANGED <<locations, err, distances, algo, starting_point, num_clusters,
                   cluster_labels, current_cluster_id, visited, steps, current,
                   visited_log, is_valid, reported, best_start, kmeans_fit,
                   remembered, between>>
    /\ UNCHANGED <<params, tuning_vars, iter_vars, batch_vars, scraper_vars, harness_vars>>

NextValidator ==
    \/ HandRoute
    \/ CheckRoute

SpecValidator == InitValidator /\ [][NextValidator]_vars

\* ------------------------------------------------------ CheckpointIterator

\* The items handed to an iterator.  An item is its own key, a Python value
\* with a type and a text: the str "1" and the str "a".
ItemKeys == {[t |-> "str", v |-> "1"], [t |-> "str", v |-> "a"]}

\* What process_func can do with an item: return a record, return None,
\* raise an Exception, or be cut short by a BaseException (KeyboardInterrupt).
Outcomes == {"record", "none", "raise", "interrupt"}

\* The record process_func returns for an item: its key field holds the
\* item's key.
RecordOf(item) == [number |-> item]

\* DataFrame(results).to_csv: every cell becomes its text.
to_csv(res) == [j \in 1..Len(res) |-> res[j].number.v]

\* Does read_csv parse this cell text as a number?
IsNumeric(text) == text \in {"1", "2"}

\* pd.read_csv(...).to_dict('records'): the type of a column is inferred
\* from all of its cells, int when every cell is numeric, else str.
read_csv(rows) ==
    LET t == IF \A j \in 1..Len(rows) : IsNumeric(rows[j]) THEN "int" ELSE "str"
    IN  [j \in 1..Len(rows) |-> [number |-> [t |-> t, v |-> rows[j]]]]

\* _save_checkpoint: the file is written anew from the results.
save_checkpoint(res) == [exists |-> TRUE, rows |-> to_csv(res)]

\* The final save of process() left out.
FinalSave_Skipped(f, res) == f

\* The final save of process().
FinalSave(f, res) == save_checkpoint(res)

\* _is_completed with the key_fields test dropped: any item that has a
\* record among the results counts as completed.
is_completed_WithoutKeyFields(item) == \E j \in 1..Len(results) : results[j].number = item

\* _is_completed: with key_fields, is the item's key among completed_keys?
is_completed(item) == key_fields /\ <<item>> \in completed_keys

\* results after process_func answered for an item, a placeholder row
\* appended for None.
AfterItem_AppendsNone(res, outcome, item) ==
    IF outcome = "record" THEN Append(res, RecordOf(item))
    ELSE IF outcome = "none" THEN Append(res, [number |-> [t |-> "str", v |-> ""]])
    ELSE res

\* results after process_func answered for an item: a record is appended,
\* None is not, and an exception leaves results as it was.
AfterItem(res, outcome, item) ==
    IF outcome = "record" THEN Append(res, RecordOf(item)) ELSE res

\* Caught without the except clause: no exception is caught.
Caught_Nothing(outcome) == outcome \notin {"raise", "interrupt"}

\* Does the loop go on after this outcome?  'except Exception' catches what
\* process_func raises, but not a BaseException.
Caught(outcome) == outcome # "interrupt"

\* The items among the first n of itp for which process_func returned a record.
RECURSIVE RecordsOf(_, _, _)
RecordsOf(itp, outs, n) ==
    IF n = 0 THEN <<>>
    ELSE RecordsOf(itp, outs, n - 1)
         \o (IF outs[n] = "record" THEN <<RecordOf(itp[n])>> ELSE <<>>)

ProducedItems(itp, outs) == {itp[j] : j \in {k \in 1..Len(outs) : outs[k] = "record"}}

\* CheckpointIterator.__init__ with _load_existing, on the file earlier runs
\* left.  A file that holds no row at all (an empty frame was saved) either
\* loads as an empty frame or makes read_csv raise EmptyDataError.
ItConstruct ==
    /\ it_pc \in {"idle", "returned", "crashed"}
    /\ runs < MaxRuns
    /\ \E its \in SeqsUpTo(ItemKeys, IterMaxItems) :
       \E empty_file \in IF file.exists /\ file.rows = <<>>
                        THEN {"empty frame", "EmptyDataError"}
                        ELSE {"no empty file"} :
         LET res == IF file.exists THEN read_csv(file.rows) ELSE <<>>
             fails == empty_file = "EmptyDataError"
         IN  /\ items' = its
             /\ results' = res
             /\ loaded' = res
             /\ completed_keys' = IF key_fields /\ file.exists
                                  THEN {<<res[j].number>> : j \in 1..Len(res)}
                                  ELSE {}
             /\ it_pc' = IF fails THEN "crashed" ELSE "constructed"
             /\ uniform' = (uniform /\ (runs = 0 \/ its = items))
    /\ items_to_process' = <<>>
    /\ it_i' = 0
    /\ outcomes' = <<>>
    /\ saved_at_start' = saved_keys
    /\ runs' = runs + 1
    /\ UNCHANGED <<key_fields, tracking, checkpoint_every, file, saved_keys>>
    /\ UNCHANGED <<router_vars, params, tuning_vars, batch_vars, scraper_vars, harness_vars>>

\* process(), up to its loop: the completed items are filtered out.
ItBegin ==
    /\ it_pc = "constructed"
    /\ items_to_process' = SelectSeq(items, LAMBDA item : ~is_completed(item))
    /\ it_pc' = "processing"
    /\ UNCHANGED <<items, key_fields, tracking, checkpoint_every, file, results,
                   completed_keys, it_i, outcomes, loaded, saved_keys, saved_at_start,
                   runs, uniform>>
    /\ UNCHANGED <<router_vars, params, tuning_vars, batch_vars, scraper_vars, harness_vars>>

\* One pass of the loop of process(): process_func, the append, the key
\* tracking and the periodic checkpoint, all inside the try block.
ItProcessItem ==
    /\ it_pc = "processing"
    /\ it_i < Len(items_to_process)
    /\ \E outcome \in Outcomes :
         LET i == it_i + 1
             item == items_to_process[i]
             res == AfterItem(results, outcome, item)
             tracked == outcome = "record" /\ key_fields
             raised == \/ outcome \in {"raise", "interrupt"}
                       \/ tracked /\ tracking = "raises"
             checkpoint == ~raised /\ i % checkpoint_every = 0
             outs == Append(outcomes, outcome)
         IN  /\ results' = res
             /\ completed_keys' = IF tracked /\ tracking = "key"
                                  THEN completed_keys \cup {<<item>>}
                                  ELSE completed_keys
             /\ file' = IF checkpoint THEN save_checkpoint(res) ELSE file
             /\ saved_keys' = IF checkpoint
                              THEN saved_keys \cup ProducedItems(items_to_process, outs)
                              ELSE saved_keys
             /\ outcomes' = outs
             /\ it_i' = i
             /\ it_pc' = IF Caught(outcome) THEN "processing" ELSE "crashed"
             /\ uniform' = (uniform /\ outcome = "record")
    /\ UNCHANGED <<items, key_fields, tracking, checkpoint_every, items_to_process,
                   loaded, saved_at_start, runs>>
    /\ UNCHANGED <<router_vars, params, tuning_vars, batch_vars, scraper_vars, harness_vars>>

\* process() after its loop: the final save, and the results are returned.
ItFinish ==
    /\ it_pc = "processing"
    /\ it_i = Len(items_to_process)
    /\ file' = FinalSave(file, results)
    /\ saved_keys' = saved_keys \cup ProducedItems(items_to_process, outcomes)
    /\ it_pc' = "returned"
    /\ uniform' = (uniform /\ Len(items_to_process) = Len(items))
    /\ UNCHANGED <<items, key_fields, tracking, checkpoint_every, results,
                   completed_keys, items_to_process, it_i, outcomes, loaded,
                   saved_at_start, runs>>
    /\ UNCHANGED <<router_vars, params, tuning_vars, batch_vars, scraper_vars, harness_vars>>

\* A script that builds a CheckpointIterator on one output path and runs it,
\* again and again: key_fields, item_key and checkpoint_every are the
\* script's, the items may differ from run to run.
InitIterator ==
    /\ RouterInit({<<>>})
    /\ \E kf \in BOOLEAN, tr \in {"key", "raises"}, ce \in 1..MaxEvery :
          IterIdle(kf, tr, ce)
    /\ BatchIdle
    /\ ScraperIdle
    /\ HarnessIdle

NextIterator ==
    \/ ItConstruct
    \/ ItBegin
    \/ ItProcessItem
    \/ ItFinish

SpecIterator == InitIterator /\ [][NextIterator]_vars

\* ------------------------------------------------------ batch scraper

\* The race names of the races file, one character per element.
RaceNames == {<<"A", " ", "b">>, <<"A", "'", "b">>}

\* The years the missing-years file may list.
Years == {2023, 2024}

\* str.lower on one character.
lower(c) == IF c = "A" THEN "a" ELSE c

\* str.lower.
Lower(name) == [j \in 1..Len(name) |-> lower(name[j])]

\* str.replace(old, new) for single characters; new = "" removes old.
RECURSIVE Replace(_, _, _)
Replace(name, old, new) ==
    IF name = <<>> THEN <<>>
    ELSE (IF Head(name) = old
          THEN (IF new = "" THEN <<>> ELSE <<new>>)
          ELSE <<Head(name)>>)
         \o Replace(Tail(name), old, new)

\* _normalize_race_name: lowercase, spaces to underscores, apostrophes removed.
normalize_race_name(race_name) ==
    Replace(Replace(Lower(race_name), " ", "_"), "'", "")

\* The row _parse_racer_record makes of racer k of a race-year: the API's
\* master_event name in lowercase, and the racer's race_date.
ParseRacerRecord(api_name, year, k) ==
    [name |-> k, race_name |-> Lower(api_name), race_date |-> <<year, 1, 1>>]

\* read_already_scraped: the (race_name, year) of every row of the output.
read_already_scraped(out) ==
    IF ~out.exists THEN {}
    ELSE {<<out.rows[j].race_name, out.rows[j].race_date[1]>> : j \in 1..Len(out.rows)}

\* sorted() of a set of years.
RECURSIVE Sorted(_)
Sorted(S) ==
    IF S = {} THEN <<>>
    ELSE LET lo == CHOOSE x \in S : \A y \in S : x <= y
         IN  <<lo>> \o Sorted(S \ {lo})

\* The years of a race that get_scraping_plan keeps: those for which neither
\* form of the race name is among the scraped (race_name, year) pairs.
years_to_scrape(race_name, years_needed, already_scraped) ==
    {year \in years_needed :
        ~\E scraped_race \in {race_name, Replace(race_name, "_", " ")} :
            <<scraped_race, year>> \in already_scraped}

\* get_scraping_plan: per race of the races file that has missing years, the
\* years still to scrape, sorted; races with none are left out.  Both input
\* files name a race alike, so its normalized name is the same in both.
RECURSIVE PlanFrom(_, _, _)
PlanFrom(urls, missing, already_scraped) ==
    IF urls = <<>> THEN <<>>
    ELSE LET race_name == normalize_race_name(Head(urls))
             todo == years_to_scrape(race_name, missing[Head(urls)], already_scraped)
         IN  (IF todo # {}
              THEN <<[race |-> Head(urls), years |-> Sorted(todo)]>>
              ELSE <<>>)
             \o PlanFrom(Tail(urls), missing, already_scraped)

get_scraping_plan(urls, missing, out) ==
    PlanFrom(urls, missing, read_already_scraped(out))

\* The loops of batch_scrape_races move on: the next year of the race, else
\* the next race of the plan, else the run is complete.
NextYear ==
    IF year_idx < Len(plan[race_idx].years)
    THEN /\ year_idx' = year_idx + 1
         /\ UNCHANGED race_idx
         /\ b_pc' = "scraping"
    ELSE IF race_idx < Len(plan)
    THEN /\ race_idx' = race_idx + 1
         /\ year_idx' = 1
         /\ b_pc' = "scraping"
    ELSE /\ UNCHANGED <<race_idx, year_idx>>
         /\ b_pc' = "done"

\* batch_scrape_races is run: the plan is made from the output as it is; an
\* empty plan ends the run, else the output is opened for appending.
BatchBegin ==
    /\ b_pc \in {"idle", "done", "stopped"}
    /\ batch_runs < MaxBatchRuns
    /\ LET p == get_scraping_plan(race_urls, missing_years, output)
       IN  /\ plan' = p
           /\ b_pc' = IF p = <<>> THEN "done" ELSE "scraping"
           /\ output' = IF p = <<>> THEN output ELSE [output EXCEPT !.exists = TRUE]
           /\ race_idx' = IF p = <<>> THEN 0 ELSE 1
           /\ year_idx' = IF p = <<>> THEN 0 ELSE 1
    /\ count' = 0
    /\ faulted' = FALSE
    /\ batch_runs' = batch_runs + 1
    /\ last_error' = NoError
    /\ UNCHANGED <<race_urls, missing_years, records_per_year>>
    /\ UNCHANGED <<router_vars, params, tuning_vars, iter_vars, scraper_vars, harness_vars>>

\* scrape_race_results yields the next record of the year and it is written.
ScrapeRecord ==
    /\ b_pc = "scraping"
    /\ count < records_per_year
    /\ LET race == plan[race_idx].race
           year == plan[race_idx].years[year_idx]
       IN  output' = [output EXCEPT
                        !.rows = Append(@, ParseRacerRecord(race, year, count + 1))]
    /\ count' = count + 1
    /\ last_error' = NoError
    /\ UNCHANGED <<b_pc, race_urls, missing_years, records_per_year, plan, race_idx,
                   year_idx, faulted, batch_runs>>
    /\ UNCHANGED <<router_vars, params, tuning_vars, iter_vars, scraper_vars, harness_vars>>

\* scrape_race_results is exhausted: the year is complete.
YearScraped ==
    /\ b_pc = "scraping"
    /\ count = records_per_year
    /\ NextYear
    /\ count' = 0
    /\ last_error' = NoError
    /\ UNCHANGED <<race_urls, missing_years, records_per_year, output, plan, faulted,
                   batch_runs>>
    /\ UNCHANGED <<router_vars, params, tuning_vars, iter_vars, scraper_vars, harness_vars>>

\* The exceptions scrape_race_results lets through, as type and message text
\* (the text in pieces): the one _scrape_single_year raises when the retries
\* are used up, an HTTPError of raise_for_status ("<status> Client Error:
\* <reason> for url: <url>", the reason phrase being the server's), and a
\* ConnectionError of requests.get.
Exceptions ==
    { [type |-> "Exception",
       message |-> <<"Rate limit exceeded", " after 5 retries. ">>],
      [type |-> "HTTPError",
       message |-> <<"500 Server Error: ", "Internal Server Error", " for url: ">>],
      [type |-> "HTTPError",
       message |-> <<"403 Client Error: ", "Rate limit exceeded", " for url: ">>],
      [type |-> "ConnectionError",
       message |-> <<"Connection aborted.">>] }

\* `text in str(e)`, for a text that is one of the pieces or none.
Contains(message, text) == \E i \in 1..Len(message) : message[i] = text

\* Reraised without the test of the message: every exception is swallowed.
Reraised_Never(e) == FALSE

\* The except clause raises e again: "Rate limit exceeded" in str(e).
Reraised(e) == Contains(e.message, "Rate limit exceeded")

\* An exception with 'Rate limit exceeded' in its message (the fetch of the
\* next page was rate limited beyond max_retries) is caught: it is raised
\* again, the output is closed with the rows written so far, and the run
\* stops.
RateLimitExceeded ==
    /\ b_pc = "scraping"
    /\ count < records_per_year
    /\ \E e \in Exceptions : Reraised(e) /\ last_error' = e
    /\ b_pc' = "stopped"
    /\ faulted' = TRUE
    /\ UNCHANGED <<race_urls, missing_years, records_per_year, output, plan, race_idx,
                   year_idx, count, batch_runs>>
    /\ UNCHANGED <<router_vars, params, tuning_vars, iter_vars, scraper_vars, harness_vars>>

\* Any other exception is caught: the run goes on with the next year.
OtherError ==
    /\ b_pc = "scraping"
    /\ count < records_per_year
    /\ \E e \in Exceptions : ~Reraised(e) /\ last_error' = e
    /\ NextYear
    /\ count' = 0
    /\ faulted' = TRUE
    /\ UNCHANGED <<race_urls, missing_years, records_per_year, output, plan, batch_runs>>
    /\ UNCHANGED <<router_vars, params, tuning_vars, iter_vars, scraper_vars, harness_vars>>

\* The orders in which the races file may list up to MaxRaces races.
RaceLists ==
    {urls \in SeqsUpTo(RaceNames, MaxRaces) :
        /\ urls # <<>>
        /\ \A j, k \in 1..Len(urls) : j # k => urls[j] # urls[k]}

\* The races file, the missing-years file (no year listed twice) and the
\* number of timed racers the API holds per race-year; no output yet.
InitBatch ==
    /\ RouterInit({<<>>})
    /\ IterIdle(FALSE, "key", 1)
    /\ race_urls \in RaceLists
    /\ missing_years \in [RaceNames -> SUBSET Years]
    /\ records_per_year \in 1..MaxRecords
    /\ output = [exists |-> FALSE, rows |-> <<>>]
    /\ plan = <<>>
    /\ b_pc = "idle"
    /\ race_idx = 0
    /\ year_idx = 0
    /\ count = 0
    /\ faulted = FALSE
    /\ batch_runs = 0
    /\ last_error = NoError
    /\ ScraperIdle
    /\ HarnessIdle

NextBatch ==
    \/ BatchBegin
    \/ ScrapeRecord
    \/ YearScraped
    \/ RateLimitExceeded
    \/ OtherError

SpecBatch == InitBatch /\ [][NextBatch]_vars

\* ------------------------------------------------ _scrape_single_year

\* What the server answers to a request: a page, 429 Too Many Requests, or
\* another error status.
Statuses == {200, 429, 500}

\* The give-up test one retry late.
GivesUp_OneLate(retries, limit) == retries > limit + 1

\* The give-up test after a 429: retry_count, just incremented, exceeds
\* max_retries.
GivesUp(retries, limit) == retries > limit

\* wait_time = 2 ** retry_count.
wait_time(retries) == 2 ^ retries

\* _scrape_single_year is called: the first page is due, no request sent yet.
ScrapeSingleYear ==
    /\ s_pc = "idle"
    /\ s_pc' = "fetching"
    /\ page' = 1
    /\ retry_count' = 0
    /\ statuses' = <<>>
    /\ waits' = <<>>
    /\ total_pages' = 0
    /\ UNCHANGED max_retries
    /\ UNCHANGED <<router_vars, params, tuning_vars, iter_vars, batch_vars, harness_vars>>

\* One pass of the retry loop: a request is sent and answered with a page.
\* The first page tells last_page; an empty page or the last page ends the
\* scrape, else the next page is due, with retry_count at 0 again.
FetchPage ==
    /\ s_pc = "fetching"
    /\ retry_count <= max_retries
    /\ \E last_page \in 1..MaxPages, empty \in BOOLEAN :
         LET tp == IF page = 1 THEN last_page ELSE total_pages
             ends == empty \/ page >= tp
         IN  /\ total_pages' = tp
             /\ s_pc' = IF ends THEN "finished" ELSE "fetching"
             /\ page' = IF ends THEN page ELSE page + 1
             /\ statuses' = IF ends THEN Append(statuses, 200) ELSE <<>>
             /\ waits' = IF ends THEN waits ELSE <<>>
             /\ retry_count' = IF ends THEN retry_count ELSE 0
    /\ UNCHANGED max_retries
    /\ UNCHANGED <<router_vars, params, tuning_vars, iter_vars, batch_vars, harness_vars>>

\* One pass of the retry loop: the request is answered with 429.  The retry
\* is counted; beyond max_retries the 'Rate limit exceeded' exception is
\* raised, else the scraper sleeps wait_time and the loop goes round.
RateLimited ==
    /\ s_pc = "fetching"
    /\ retry_count <= max_retries
    /\ statuses' = Append(statuses, 429)
    /\ retry_count' = retry_count + 1
    /\ IF GivesUp(retry_count + 1, max_retries)
       THEN /\ s_pc' = "rate limit exceeded"
            /\ UNCHANGED waits
       ELSE /\ s_pc' = "fetching"
            /\ waits' = Append(waits, wait_time(retry_count + 1))
    /\ UNCHANGED <<max_retries, page, total_pages>>
    /\ UNCHANGED <<router_vars, params, tuning_vars, iter_vars, batch_vars, harness_vars>>

\* One pass of the retry loop: the request is answered with another error
\* status, and the HTTPError is raised again as it is.
HttpError ==
    /\ s_pc = "fetching"
    /\ retry_count <= max_retries
    /\ statuses' = Append(statuses, 500)
    /\ s_pc' = "http error"
    /\ UNCHANGED <<max_retries, retry_count, page, waits, total_pages>>
    /\ UNCHANGED <<router_vars, params, tuning_vars, iter_vars, batch_vars, harness_vars>>

\* The caller scrapes another year.
ScrapeAgain ==
    /\ s_pc \in {"finished", "rate limit exceeded", "http error"}
    /\ s_pc' = "idle"
    /\ \E m \in 0..MaxMaxRetries : max_retries' = m
    /\ page' = 0
    /\ retry_count' = 0
    /\ statuses' = <<>>
    /\ waits' = <<>>
    /\ total_pages' = 0
    /\ UNCHANGED <<router_vars, params, tuning_vars, iter_vars, batch_vars, harness_vars>>

\* _scrape_single_year with any max_retries from 0 to MaxMaxRetries, against
\* a server that answers every request as it likes.
InitScraper ==
    /\ RouterInit({<<>>})
    /\ IterIdle(FALSE, "key", 1)
    /\ BatchIdle
    /\ s_pc = "idle"
    /\ max_retries \in 0..MaxMaxRetries
    /\ retry_count = 0
    /\ page = 0
    /\ statuses = <<>>
    /\ waits = <<>>
    /\ total_pages = 0
    /\ HarnessIdle

NextScraper ==
    \/ ScrapeSingleYear
    \/ FetchPage
    \/ RateLimited
    \/ HttpError
    \/ ScrapeAgain

SpecScraper == InitScraper /\ [][NextScraper]_vars

\* ================================================================= claims

\* The locations still unvisited when step i of the route in progress was taken.
UnvisitedAt(i) == Range(locations) \ visited_log[i]

\* C1: for a list with at least two distinct coordinates and a starting
\* point of the list, the route either router returns on the index of
\* calculate_distances makes check_route return True.
C1_RoutesPassValidation ==
    (pc = "checked" /\ algo \in {"greedy", "clustered"}
        /\ starting_point \in Range(locations)
        /\ Cardinality(Range(locations)) >= 2)
    => is_valid

\* C1 witness: a clustered route of two steps over two clusters was checked
\* and found valid.
C1_Witness ==
    /\ pc = "checked" /\ algo = "clustered" /\ num_clusters = 2
    /\ Cardinality({cluster_labels[c] : c \in Range(locations)}) = 2
    /\ Len(route.steps) = 2
    /\ is_valid

C3_StepsToNearestEligible ==
    algo = "greedy" =>
        \A i \in 1..Len(steps) :
            LET eligible == IF LockIn(locations, visited_log[i], steps[i][1])
                            THEN staten_island_coords(locations) \ visited_log[i]
                            ELSE UnvisitedAt(i)
            IN  \A u \in eligible :
                    distance_to(steps[i][1], steps[i][2]) <= distance_to(steps[i][1], u)

\* C4: every list of the index is in non-decreasing order of distance.
C4_ListsAscending ==
    pc = "indexed" =>
        \A a \in DOMAIN distances :
            \A i \in 1..Len(distances[a]) : \A j \in i..Len(distances[a]) :
                distances[a][i][1] <= distances[a][j][1]

\* How often x occurs in the list s.
Occurrences(s, x) == Cardinality({i \in 1..Len(s) : s[i] = x})

TrialTotal(s) ==
    total_distance(RouteFrom(algo, locations, calculate_distances(locations).map,
                             cluster_labels, s))

\* C6: find_best_starting_point returns a location whose route is no longer
\* than the route from any location of the list, and the first such location
\* of the list.
C6_BestStartIsFirstMinimum ==
    (pc = "optimized" /\ Len(locations) > 0) =>
        /\ best_start \in Range(locations)
        /\ \A t \in Range(locations) : TrialTotal(best_start) <= TrialTotal(t)
        /\ \A j \in 1..(IndexOf(locations, best_start) - 1) :
              TrialTotal(locations[j]) > TrialTotal(best_start)

\* C6 witness: the optimizer returned a location although a later location
\* of the list reaches the same total, and another location a larger one.
C6_Witness ==
    /\ pc = "optimized" /\ best_start # None
    /\ \E j \in 1..Len(locations) :
          /\ j > IndexOf(locations, best_start)
          /\ locations[j] # best_start
          /\ TrialTotal(locations[j]) = TrialTotal(best_start)
    /\ \E t \in Range(locations) : TrialTotal(t) > TrialTotal(best_start)

\* C7: check_route accepts the zero-step route over an empty list or over a
\* single location.
C7_TrivialRoutesAccepted ==
    (pc = "checked" /\ route.steps = <<>> /\ Cardinality(Range(locations)) <= 1)
    => is_valid

\* The visited points of the checked route: point 0 is the first origin,
\* point i the destination of step i.
Point(i) == IF i = 0 THEN route.steps[1][1] ELSE route.steps[i][2]

\* The defect classes the checked route has, stated on the route itself.
Defects ==
    LET n == Len(route.steps)
    IN  {d \in {"duplicate", "missing", "extra", "discontinuity",
                "start mismatch", "end mismatch"} :
            \/ d = "duplicate" /\ \E i \in 0..n : \E j \in 0..n : i < j /\ Point(i) = Point(j)
            \/ d = "missing" /\ \E l \in Range(locations) : \A i \in 0..n : Point(i) # l
            \/ d = "extra" /\ \E i \in 0..n : Point(i) \notin Range(locations)
            \/ d = "discontinuity"
                 /\ \E i \in 1..(n - 1) : route.steps[i][2] # route.steps[i + 1][1]
            \/ d = "start mismatch" /\ route.steps[1][1] # route.start
            \/ d = "end mismatch" /\ route.steps[n][2] # route.end}

\* C8: for a route of at least one step check_route returns False exactly
\* when the route has a defect, and it reports every defect class the route
\* has, and no other, in the one call.
C8_AllDefectsReported ==
    (pc = "checked" /\ Len(route.steps) >= 1) =>
        /\ reported = Defects
        /\ is_valid = (Defects = {})

\* C8 witness: one call reported four defect classes at once.
C8_Witness ==
    /\ pc = "checked" /\ Len(route.steps) >= 1
    /\ Cardinality(reported) >= 4
    /\ ~is_valid

\* C9: an invocation with the inputs of a remembered earlier one returns the
\* route that one returned.
C9_SameInputsSameRoute ==
    (pc = "routed" /\ remembered # <<>> /\ remembered[1].key = InvocationKey)
    => route = remembered[1].route

\* C9 witness: a clustered invocation over two clusters returned again,
\* after an invocation with other inputs had returned in between.
C9_Witness ==
    /\ pc = "routed" /\ remembered # <<>> /\ remembered[1].key = InvocationKey
    /\ between
    /\ algo = "clustered" /\ num_clusters = 2
    /\ Cardinality({cluster_labels[c] : c \in Range(locations)}) = 2
    /\ Len(route.steps) = 2

\* C10: for a list that holds a coordinate more than once, the route visits
\* every coordinate once only, fewer points than the list has entries, and
\* check_route returns False for it.
C10_CollapsedRouteFlagged ==
    (pc = "checked" /\ algo \in {"greedy", "clustered"}
        /\ starting_point \in Range(locations)
        /\ Cardinality(Range(locations)) < Len(locations))
    => /\ Cardinality(visited) < Len(locations)
       /\ ~is_valid

LowestTotal ==
    CHOOSE t \in {evaluations[i].total : i \in 1..Len(evaluations)} :
        \A j \in 1..Len(evaluations) : t <= evaluations[j].total

\* C11: optimize_parameters returns the cluster count and the starting
\* point of a trial with the lowest total route distance.
C11_ReturnsWinningParameters ==
    (pc = "tuned" /\ evaluations # <<>>) =>
        /\ Len(returned) = 2
        /\ \E i \in 1..Len(evaluations) :
              /\ evaluations[i].total = LowestTotal
              /\ returned = <<evaluations[i].n, evaluations[i].start>>

\* C12: optimize_parameters(max_clusters = K) on n locations runs n x K
\* trials, one for every starting point with every cluster count in 1..K.
C12_EvaluatesEveryPair ==
    pc = "tuned" =>
        /\ Len(evaluations) = Len(locations) * max_clusters
        /\ \A s \in Range(locations) : \A n \in 1..max_clusters :
              \E i \in 1..Len(evaluations) :
                  evaluations[i].start = s /\ evaluations[i].n = n

\* C14: with key_fields, process_func is not called for an item whose
\* record an earlier run saved, the results are the loaded records followed
\* by the new ones in item order, and no key is twice in the output file.
C14_SavedItemsNotProcessedAgain ==
    key_fields =>
        /\ \A j \in 1..Len(outcomes) : items_to_process[j] \notin saved_at_start
        /\ it_pc = "returned" =>
              /\ results = loaded \o RecordsOf(items_to_process, outcomes, Len(outcomes))
              /\ \A j \in 1..Len(file.rows) : \A k \in 1..Len(file.rows) :
                    file.rows[j] = file.rows[k] => j = k

\* C15: an Exception of process_func does not leave process(): the loop
\* handles every item to process, and process() returns the loaded records
\* and the records of the items that returned one, none for an item that
\* raised.
C15_ErrorsAreSkipped ==
    /\ (it_pc = "crashed" /\ outcomes # <<>>) => outcomes[Len(outcomes)] = "interrupt"
    /\ it_pc = "returned" =>
          /\ Len(outcomes) = Len(items_to_process)
          /\ Len(results) = Len(loaded)
                + Cardinality({j \in 1..Len(outcomes) : outcomes[j] \notin {"raise", "none"}})
          /\ \A j \in 1..Len(outcomes) :
                outcomes[j] = "raise" =>
                    RecordsOf(items_to_process, outcomes, j)
                        = RecordsOf(items_to_process, outcomes, j - 1)

\* C15 witness: process() returned although process_func raised for the
\* first item, with the record of the second item.
C15_Witness ==
    /\ it_pc = "returned"
    /\ outcomes = <<"raise", "record">>
    /\ results = loaded \o <<RecordOf(items_to_process[2])>>

\* C16: when process() has returned, the output file exists and holds the
\* records process() returned.
C16_FileHoldsReturnedRecords ==
    it_pc = "returned" => (file.exists /\ file.rows = to_csv(results))

\* C16 witness: process() returned records of a run in which no periodic
\* checkpoint was due, checkpoint_every being larger than the item count.
C16_Witness ==
    /\ it_pc = "returned"
    /\ checkpoint_every > Len(items_to_process)
    /\ Len(results) > Len(loaded)
    /\ file.rows = to_csv(results)

\* C17: a None of process_func adds no record, and the results are the
\* loaded records followed by the records of the other items in item order,
\* all through the loop.
C17_NoneAddsNoRecord ==
    it_pc \in {"processing", "returned"} =>
        results = loaded \o RecordsOf(items_to_process, outcomes, it_i)

\* C17 witness: process() returned after a None for the first item and a
\* record for the second, behind a record loaded from the file.
C17_Witness ==
    /\ it_pc = "returned"
    /\ outcomes = <<"none", "record">>
    /\ Len(loaded) >= 1
    /\ results = loaded \o <<RecordOf(items_to_process[2])>>

\* C18: without key_fields no item is skipped, and k runs over the same m
\* items, a record returned for each, leave k * m records.
C18_NoKeyFieldsNoDeduplication ==
    ~key_fields =>
        /\ it_pc \in {"processing", "returned"} => items_to_process = items
        /\ (it_pc = "returned" /\ uniform) => Len(results) = runs * Len(items)

\* C18 witness: the second run over the same two items returned four records.
C18_Witness ==
    /\ ~key_fields /\ it_pc = "returned" /\ uniform
    /\ runs = 2 /\ Len(items) = 2 /\ Len(results) = 4

\* C19: when the loop has handled a checkpoint_every-th item the output
\* file holds the results accumulated so far.
C19_PeriodicCheckpoint ==
    (it_pc = "processing" /\ it_i > 0 /\ it_i % checkpoint_every = 0)
    => (file.exists /\ file.rows = to_csv(results))


\* The race-years that are to be scraped: the missing years of the races
\* that the races file lists.
PlannedRaceYears == {<<race_urls[j], y>> : j \in 1..Len(race_urls), y \in Years} \cap
                    {ry \in RaceNames \X Years : ry[2] \in missing_years[ry[1]]}

\* The output holds every record of the race-year.
CompleteInOutput(race, year) ==
    \A k \in 1..records_per_year :
        ParseRacerRecord(race, year, k) \in Range(output.rows)

\* C20: when a run of batch_scrape_races ends without any error, after
\* earlier runs that were stopped or hit errors in the middle of a race-year,
\* the output holds the complete results of every planned race-year.
C20_ErrorFreeRerunCompletes ==
    (b_pc = "done" /\ ~faulted) =>
        \A ry \in PlannedRaceYears : CompleteInOutput(ry[1], ry[2])


\* The requests sent for the page: the statuses answered.
RequestsSent == Len(statuses)

\* C21: for one page at most max_retries + 1 requests are sent; only a 429
\* is followed by another request; the k-th retry is preceded by a wait of
\* 2^k seconds; when max_retries + 1 requests were answered 429 the 'Rate
\* limit exceeded' exception is raised and no further request is sent; any
\* other error status is raised at once.
C21_RetryBound ==
    /\ RequestsSent <= max_retries + 1
    /\ \A j \in 1..(RequestsSent - 1) : statuses[j] = 429
    /\ \A k \in 1..Len(waits) : waits[k] = 2 ^ k
    /\ Len(waits) <= max_retries
    /\ s_pc = "fetching" => Len(waits) = RequestsSent
    /\ s_pc = "rate limit exceeded" <=>
          (RequestsSent = max_retries + 1 /\ \A j \in 1..RequestsSent : statuses[j] = 429)
    /\ s_pc = "rate limit exceeded" => Len(waits) = max_retries
    /\ s_pc = "http error" <=>
          (RequestsSent >= 1 /\ statuses[RequestsSent] = 500)
    /\ s_pc = "http error" => Len(waits) = RequestsSent - 1

\* C21 witness: with max_retries = 3 the server answered 429 four times; the
\* scraper waited 2, 4 and 8 seconds and then raised 'Rate limit exceeded'.
C21_Witness ==
    /\ s_pc = "rate limit exceeded"
    /\ max_retries = 3
    /\ statuses = <<429, 429, 429, 429>>
    /\ waits = <<2, 4, 8>>


\* The visiting order of the route in progress: the starting point, then the
\* destination of every step.
VisitingOrder == <<starting_point>> \o [i \in 1..Len(steps) |-> steps[i][2]]

InStatenIsland(c) == get_borough(c) = "Staten Island"

\* C22: in a route of either router, from a Staten Island location every
\* step goes to a Staten Island location until all of them are visited, and
\* the Staten Island locations are one uninterrupted block of the visiting
\* order.
C22_StatenIslandBlock ==
    algo \in {"greedy", "clustered"} =>
        /\ \A i \in 1..Len(steps) :
              (InStatenIsland(steps[i][1])
                 /\ staten_island_coords(locations) \ visited_log[i] # {})
              => InStatenIsland(steps[i][2])
        /\ \A i \in 1..Len(VisitingOrder) : \A k \in i..Len(VisitingOrder) :
              (InStatenIsland(VisitingOrder[i]) /\ InStatenIsland(VisitingOrder[k]))
              => \A j \in i..k : InStatenIsland(VisitingOrder[j])
        /\ pc \in {"routed", "checked"} =>
              \/ staten_island_coords(locations) \subseteq visited
              \/ ~InStatenIsland(current)
              \/ Cardinality(visited) >= Len(locations)

\* C22 witness: a returned route came into Staten Island from another
\* borough, visited both Staten Island locations one after the other and
\* went on to another borough.
C22_Witness ==
    /\ pc = "routed"
    /\ Len(VisitingOrder) = 4
    /\ ~InStatenIsland(VisitingOrder[1])
    /\ InStatenIsland(VisitingOrder[2])
    /\ InStatenIsland(VisitingOrder[3])
    /\ ~InStatenIsland(VisitingOrder[4])


\* C23: a router that was entered returns (or raises); every pass of its
\* loop that takes a step adds one new location to the visited set, so a
\* route over n locations has at most n - 1 steps, none for n <= 1; where no
\* unvisited candidate is left while the count of visited locations is
\* below n, the partial route is returned.
C23_RoutersTerminate ==
    /\ [](algo \in {"greedy", "clustered"} =>
            /\ \A i \in 1..Len(steps) : steps[i][2] \notin visited_log[i]
            /\ pc \in {"routing", "routed", "checked"} =>
                  Cardinality(visited) = Len(steps) + 1
            /\ Len(steps) <= (IF Len(locations) >= 1 THEN Len(locations) - 1 ELSE 0))
    /\ (pc = "routing") ~> (pc \in {"routed", "error"})

\* C23 witness: from a starting point of the list a router returned a route
\* that visits fewer locations than the list has entries, no candidate
\* being left: the list holds a coordinate twice.
C23_Witness ==
    /\ pc = "routed"
    /\ starting_point \in Range(locations)
    /\ Len(steps) >= 1
    /\ Cardinality(visited) < Len(locations)


\* The clusters that had an unvisited member when step i was taken.
UnvisitedClustersAt(i) == {cluster_labels[c] : c \in UnvisitedAt(i)}

\* Step i was taken outside the lock-in, the cluster of its origin having
\* an unvisited member (stays = TRUE) or none (stays = FALSE).
FreeStep(i, stays) ==
    /\ ~LockIn(locations, visited_log[i], steps[i][1])
    /\ (cluster_labels[steps[i][1]] \in UnvisitedClustersAt(i)) = stays

\* C24: a step of the clustered router taken outside the lock-in goes to a
\* member of the current location's cluster while that cluster has an
\* unvisited member, and otherwise into a cluster whose centroid is nearest
\* to the current location among the clusters with an unvisited member.
C24_ClusterPreference ==
    (algo = "clustered" /\ pc \in {"routing", "routed", "checked"}) =>
        \A i \in 1..Len(steps) :
            /\ FreeStep(i, TRUE) =>
                  cluster_labels[steps[i][2]] = cluster_labels[steps[i][1]]
            /\ FreeStep(i, FALSE) =>
                  \A b \in UnvisitedClustersAt(i) :
                      ~CentroidNearer(locations, cluster_labels, steps[i][1], b,
                                      cluster_labels[steps[i][2]])

\* C24 witness: a step stayed in its cluster although an unvisited location
\* of another cluster was strictly nearer, and a later step, the cluster
\* being exhausted, went into another cluster.
C24_Witness ==
    /\ algo = "clustered" /\ pc = "routed"
    /\ \E i \in 1..Len(steps) :
          /\ FreeStep(i, TRUE)
          /\ \E u \in UnvisitedAt(i) :
                /\ cluster_labels[u] # cluster_labels[steps[i][1]]
                /\ distance_to(steps[i][1], u) < distance_to(steps[i][1], steps[i][2])
          /\ \E j \in (i + 1)..Len(steps) :
                /\ FreeStep(j, FALSE)
                /\ cluster_labels[steps[j][2]] # cluster_labels[steps[j][1]]


\* The harness method has made its route.
HarnessRouted ==
    /\ mode # "none"
    /\ pc \in {"routing", "routed", "checked", "rendered", "diags written", "finished"}

\* C25: in one harness run the distance index is built exactly once, and
\* that one index is read by the optimizer's trials and by the final route
\* construction.
C25_IndexBuiltOnce ==
    HarnessRouted =>
        /\ index_builds = 1
        /\ route_index = 1
        /\ mode = "optimize_starting_point" => trials_index = 1

\* C27: check_route returns a boolean and raises nothing; whatever it
\* returned, the harness method goes on: it renders the route, then writes
\* diags.csv, then route.json.
C27_ValidationFailureIsData ==
    /\ pc \in {"checked", "rendered", "diags written", "finished"} =>
          /\ is_valid \in BOOLEAN
          /\ err = "none"
    /\ (mode # "none" /\ pc = "checked") => ENABLED RenderRoute
    /\ (mode # "none" /\ pc = "rendered") => ENABLED WriteDiags
    /\ (mode # "none" /\ pc = "diags written") => ENABLED WriteRouteJson
    /\ (mode # "none" /\ pc = "checked") => written = <<>>
    /\ (mode # "none" /\ pc = "rendered") => written = SubSeq(HarnessFiles, 1, 1)
    /\ (mode # "none" /\ pc = "diags written") => written = SubSeq(HarnessFiles, 1, 2)
    /\ (mode # "none" /\ pc = "finished") => written = HarnessFiles

\* C27 witness: check_route returned False in a harness method, and the
\* method finished with the three files written.
C27_Witness ==
    /\ mode # "none"
    /\ pc = "finished"
    /\ ~is_valid
    /\ written = <<"route.png", "diags.csv", "route.json">>


\* The unvisited locations step i could be taken to: the unvisited Staten
\* Island locations while the lock-in is active, else every unvisited one.
EligibleAt(i) ==
    IF LockIn(locations, visited_log[i], steps[i][1])
    THEN staten_island_coords(locations) \ visited_log[i]
    ELSE UnvisitedAt(i)

\* The eligible locations at the distance of the destination of step i.
TiedAt(i) ==
    {u \in EligibleAt(i) :
        distance_to(steps[i][1], u) = distance_to(steps[i][1], steps[i][2])}

\* Two locations of the list are at the same distance from a third.
HasTie ==
    \E a, b, c \in Range(locations) :
        a # b /\ a # c /\ b # c /\ distance_to(a, b) = distance_to(a, c)

\* C26: with locations at equal distance from another, calculate_distances
\* and the greedy router complete without error, and a step with tied
\* eligible destinations goes to the one that comes first in the list.
C26_TiesBrokenByInputOrder ==
    HasTie =>
        /\ err # "TypeError"
        /\ algo = "greedy" =>
              \A i \in 1..Len(steps) :
                  \A u \in TiedAt(i) :
                      IndexOf(locations, steps[i][2]) <= IndexOf(locations, u)


\* C28: a router invocation and check_route leave the location list and,
\* once it is built, the distance index as they are (keys, lists and the
\* order of the lists), so an invocation with the inputs of a remembered
\* earlier one returns the same route.
C28_SharedStateUnchanged ==
    /\ [][locations' = locations /\ (pc # "loaded" => distances' = distances)]_vars
    /\ [](pc \in {"indexed", "routing", "routed", "checked"} =>
            distances = calculate_distances(locations).map)
    /\ []((pc \in {"routed", "checked"} /\ remembered # <<>>
            /\ remembered[1].key = InvocationKey) => route = remembered[1].route)

\* C28 witness: after a remembered invocation, another one and a call of
\* check_route, an invocation with the remembered inputs made steps and was
\* checked in its turn.
C28_Witness ==
    /\ pc = "checked"
    /\ remembered # <<>> /\ remembered[1].key = InvocationKey
    /\ between
    /\ Len(steps) >= 2


\* The position of the race-year after the one being scraped, if any.
AtNextYear ==
    \/ /\ year_idx < Len(plan[race_idx].years)
       /\ race_idx' = race_idx /\ year_idx' = year_idx + 1 /\ b_pc' = "scraping"
    \/ /\ year_idx = Len(plan[race_idx].years) /\ race_idx < Len(plan)
       /\ race_idx' = race_idx + 1 /\ year_idx' = 1 /\ b_pc' = "scraping"
    \/ /\ year_idx = Len(plan[race_idx].years) /\ race_idx = Len(plan)
       /\ b_pc' = "done"

\* C29: an exception whose message contains 'Rate limit exceeded' stops the
\* batch (nothing follows but another run of batch_scrape_races), any other
\* exception makes the batch go on with the next year, and in both cases
\* the rows written before stay in the output.
C29_ErrorPolicy ==
    [][ /\ last_error' # NoError =>
              /\ output' = output
              /\ IF Contains(last_error'.message, "Rate limit exceeded")
                 THEN b_pc' = "stopped"
                 ELSE AtNextYear /\ count' = 0
        /\ b_pc = "stopped" => batch_runs' = batch_runs + 1 ]_vars

\* C29 witness: a rate-limit exception that is not the scraper's own stopped
\* the batch in its second race-year, after another exception had been
\* swallowed, rows of both years being in the output.
C29_Witness ==
    /\ b_pc = "stopped"
    /\ last_error.type = "HTTPError"
    /\ Contains(last_error.message, "Rate limit exceeded")
    /\ count > 0
    /\ Len(output.rows) > count
    /\ batch_runs = 1
    /\ race_idx + year_idx > 2


\* C30: with key_fields set, at every point of process() completed_keys
\* holds the key of every record in results, and for every item that
\* produced a record the key item_key gives for that item.
C30_CompletedKeysCoverResults ==
    (key_fields /\ it_pc \in {"constructed", "processing", "returned"}) =>
        /\ \A j \in 1..Len(results) : <<results[j].number>> \in completed_keys
        /\ \A j \in 1..Len(outcomes) :
              outcomes[j] = "record" => <<items_to_process[j]>> \in completed_keys

====
